---- MODULE Spec2Model ----
(***************************************************************************)
(* invtrak: a one-shot command line agent that rotates an OAuth2 token,    *)
(* mirrors the account list and pulls the activity history of an account   *)
(* into a bolt store, window by window.                                    *)
(*                                                                         *)
(* Two revisions of the program are modelled side by side:                 *)
(*   "main"  - src/main.go: activities keyed by trade date, 30 day step,   *)
(*             horizon 365*2.25 days;                                      *)
(*   "split" - src/unnamed/part_000 (main) with src/unnamed/part_001       *)
(*             (activities): keyed by bucket sequence, 31 day step,        *)
(*             horizon 365*2.5 days.                                       *)
(* One process runs at a time (bolt.Open holds the file lock of test.db);  *)
(* the store, and the upstream's view of the refresh token, outlive it.    *)
(*                                                                         *)
(* Byte strings that are used as store keys are tuples of small naturals,  *)
(* ordered as bytes.Compare orders them. Times are whole days relative to  *)
(* the time.Now() of the run (0 = now, -30 = thirty days ago).             *)
(***************************************************************************)
EXTENDS Integers, Sequences, FiniteSets, TLC

\* ---------------------------------------------------------------- bounds
\* number of process invocations explored
MaxRuns == 3

\* ------------------------------------------------------ program constants
WindowWidthDays == 30
BlockDays == 30

Revisions == {"main", "split"}

VARIABLES
    revision,   \* which revision of the program is installed
    db,         \* test.db: bucket name -> [sequence, kv]
    upstream,   \* the provider's refresh token state: [issued, valid]
    feed,       \* the provider's activity history: what each window holds
    runs,       \* process invocations so far
    pc,         \* the process: idle, initToken, dispatch, sync, exit
    command,    \* conf.command
    arg,        \* flag.Arg(0)
    tradeType,  \* conf.tradeType (split revision)
    env,        \* REFRESH_TOKEN of the process environment
    token,      \* var token *authToken
    err,        \* the err main ends with
    exchanges,  \* this run: refresh tokens presented to the token endpoint
    found,      \* this run: the token loadToken found, or Nil
    dispatched, \* this run: the switch on conf.command was entered
    bearer,     \* this run: Authorization of the last authenticated request
    fault,      \* this run: what went wrong in the step taken last, or "none"
    queue,      \* refreshAllActivities: accounts still to be synced
    acct,       \* requestActivities: accountID
    i,          \* requestActivities: loop counter
    startDate,  \* requestActivities: startDate
    endDate,    \* requestActivities: endDate
    windows,    \* this account sync: the [startTime, endTime] requested
    synced,     \* this run: accounts whose requestActivities was entered
    completed,  \* this run: accounts whose requestActivities returned nil
    output,     \* this run: the listing the command logged
    fetched,    \* this run: the accounts requestAccounts returned to setup
    listedBefore, \* this run: what loadAccounts held when setup was entered
    stored,     \* per account: upstream activities committed by saveActivities
    lastSaved   \* per account: the last non-empty response saveActivities committed

vars == <<revision, db, upstream, feed, runs, pc, command, arg, tradeType, env,
          token, err, exchanges, found, dispatched, bearer, fault, queue, acct,
          i,
          startDate, endDate, windows, synced, completed, output, fetched,
          listedBefore, stored, lastSaved>>

\* what outlives a process, and what is its memory
persistent == <<revision, db, upstream, feed, runs, stored, lastSaved>>
syncVars == <<queue, acct, i, startDate, endDate, windows, synced, completed>>
setupVars == <<fetched, listedBefore>>

\* ------------------------------------------------------------ byte strings
\* bytes.Compare(a, b) < 0
RECURSIVE BytesLess(_, _)
BytesLess(a, b) ==
    IF Len(a) = 0 THEN Len(b) > 0
    ELSE IF Len(b) = 0 THEN FALSE
    ELSE IF Head(a) # Head(b) THEN Head(a) < Head(b)
    ELSE BytesLess(Tail(a), Tail(b))

\* the keys of a bucket in cursor order (c.First(), c.Next(), ...)
RECURSIVE SortedKeys(_)
SortedKeys(S) ==
    IF S = {} THEN << >>
    ELSE LET m == CHOOSE x \in S : \A y \in S \ {x} : BytesLess(x, y)
         IN  <<m>> \o SortedKeys(S \ {m})

\* itob returns an 8-byte big endian representation of v; the sequence
\* numbers of the model stay below 2^32, so the four high bytes are 0
itob(v) == [n \in 1..8 |-> IF n <= 4 THEN 0 ELSE (v \div (256 ^ (8 - n))) % 256]

\* ------------------------------------------------------------- the store
NoErr == << >>
EmptyKV == << >>
EmptyBucket == [sequence |-> 0, kv |-> EmptyKV]

BkROOT == <<"ROOT">>
BkACCOUNTS == <<"ACCOUNTS">>
BkACTIVITIES(accountID) == <<"ACTIVITIES-", accountID>>
KeyTOKEN == <<84, 79, 75, 69, 78>>

\* tx.Bucket(name) # nil
HasBucket(d, name) == name \in DOMAIN d

\* tx.CreateBucketIfNotExists(name)
CreateBucketIfNotExists(d, name) ==
    IF HasBucket(d, name) THEN d
    ELSE [x \in (DOMAIN d) \cup {name} |-> IF x = name THEN EmptyBucket ELSE d[x]]

\* bucket.Put(key, value) refuses an empty key (bolt.ErrKeyRequired)
PutFails(key) == Len(key) = 0

\* bucket.Put(key, value): insert or overwrite
Put(bk, key, value) ==
    [bk EXCEPT !.kv = [x \in (DOMAIN bk.kv) \cup {key} |->
                          IF x = key THEN value ELSE bk.kv[x]]]

\* the values of a bucket in cursor order
Values(bk) ==
    LET ks == SortedKeys(DOMAIN bk.kv)
    IN  [n \in 1..Len(ks) |-> bk.kv[ks[n]]]

WithBucket(d, name, bk) == [d EXCEPT ![name] = bk]

\* ------------------------------------------------------------- the token
Nil == [nil |-> TRUE]
RefreshTok(n) == <<"refresh", n>>
AccessTok(n) == <<"access", n>>
SeedToken == RefreshTok(0)
NotSet == <<"unset", 0>>
\* REFRESH_TOKEN set to the empty string
EmptyValue == <<"", 0>>

\* &authToken{}
ZeroToken == [AccessToken |-> <<"", 0>>, TokenType |-> "", ExpiresIn |-> 0,
              RefreshToken |-> <<"", 0>>, APIServer |-> ""]

\* the n-th token the provider issues
IssuedToken(n) == [AccessToken |-> AccessTok(n), TokenType |-> "Bearer",
                   ExpiresIn |-> 1800, RefreshToken |-> RefreshTok(n),
                   APIServer |-> "https://api.questrade/"]

\* json.Marshal(token): the fields in struct order
MarshalToken(t) ==
    <<t.AccessToken, t.TokenType, t.ExpiresIn, t.RefreshToken, t.APIServer>>

\* json.Unmarshal(bytes, token)
UnmarshalToken(b) ==
    [AccessToken |-> b[1], TokenType |-> b[2], ExpiresIn |-> b[3],
     RefreshToken |-> b[4], APIServer |-> b[5]]

\* an HTTP response of doReq: a transport error, a non-200 status, or a body
Garbage == [json |-> FALSE, doc |-> << >>]
Body(doc) == [json |-> TRUE, doc |-> doc]

\* doReq(url, addAuth): the error it returns for an outcome of the exchange
doReqErr(outcome) ==
    CASE outcome = "transport" -> <<"error performing request">>
      [] outcome = "status"    -> <<"error return code">>
      [] OTHER                 -> NoErr

\* what went wrong in a request and the store transaction after it
Fault(outcome, json, ioOk) ==
    IF outcome \in {"transport", "status", "malformed"} THEN outcome
    ELSE IF ~json THEN "malformed"
    ELSE IF ~ioOk THEN "io"
    ELSE "none"

\* a saveToken that reports success without having written
saveToken_skip(d, t, ioOk) == [db |-> d, err |-> NoErr]

\* saveToken(): ROOT/TOKEN := json.Marshal(token), in one db.Update
saveToken(d, t, ioOk) ==
    IF ioOk
    THEN [db |-> WithBucket(d, BkROOT, Put(d[BkROOT], KeyTOKEN, MarshalToken(t))),
          err |-> NoErr]
    ELSE [db |-> d, err |-> <<"could not save token", "could not insert token">>]

\* loadToken(): the persisted token, or an error when ROOT/TOKEN is absent
loadToken(d) ==
    IF KeyTOKEN \in DOMAIN d[BkROOT].kv
    THEN [token |-> UnmarshalToken(d[BkROOT].kv[KeyTOKEN]), err |-> NoErr]
    ELSE [token |-> Nil, err |-> <<"could not load token", "no token found">>]

\* the provider's token endpoint: what an exchange of refreshTokenStr can do.
\* Only the refresh token that is currently valid can be exchanged; an
\* exchange consumes it and issues the next one.
ExchangeOutcomes(up, refreshTokenStr) ==
    {"transport", "status"} \cup
    (IF refreshTokenStr = up.valid THEN {"ok", "malformed"} ELSE {})

UpstreamAfter(up, outcome) ==
    IF outcome \in {"ok", "malformed"}
    THEN [issued |-> up.issued + 1, valid |-> RefreshTok(up.issued + 1)]
    ELSE up

\* a requestToken that drops the error of saveToken
requestToken_ignoreSaveErr(d, t, up, outcome, ioOk) ==
    IF outcome \in {"transport", "status"}
    THEN [db |-> d, token |-> t,
          err |-> <<"error requesting token">> \o doReqErr(outcome)]
    ELSE IF outcome = "malformed"
    THEN [db |-> d, token |-> ZeroToken, err |-> <<"error parsing JSON">>]
    ELSE LET fresh == UnmarshalToken(MarshalToken(IssuedToken(up.issued + 1)))
             saved == saveToken(d, fresh, ioOk)
         IN  [db |-> saved.db, token |-> fresh, err |-> NoErr]

\* a requestToken that reports a failed save like a failed request
requestToken_sameErr(d, t, up, outcome, ioOk) ==
    IF outcome \in {"transport", "status"}
    THEN [db |-> d, token |-> t,
          err |-> <<"error requesting token">> \o doReqErr(outcome)]
    ELSE IF outcome = "malformed"
    THEN [db |-> d, token |-> ZeroToken, err |-> <<"error parsing JSON">>]
    ELSE LET fresh == UnmarshalToken(MarshalToken(IssuedToken(up.issued + 1)))
             saved == saveToken(d, fresh, ioOk)
         IN  [db |-> saved.db, token |-> fresh,
              err |-> IF saved.err = NoErr THEN NoErr
                      ELSE <<"error requesting token">> \o saved.err]

\* requestToken(refreshTokenStr): doReq, json.Unmarshal into token, saveToken
requestToken(d, t, up, outcome, ioOk) ==
    IF outcome \in {"transport", "status"}
    THEN [db |-> d, token |-> t,
          err |-> <<"error requesting token">> \o doReqErr(outcome)]
    ELSE IF outcome = "malformed"
    THEN [db |-> d, token |-> ZeroToken, err |-> <<"error parsing JSON">>]
    ELSE LET fresh == UnmarshalToken(MarshalToken(IssuedToken(up.issued + 1)))
             saved == saveToken(d, fresh, ioOk)
         IN  [db |-> saved.db, token |-> fresh,
              err |-> IF saved.err = NoErr THEN NoErr
                      ELSE <<"error saving token">> \o saved.err]

\* ------------------------------------------------------------- accounts
\* account numbers as byte strings: "10" sorts before "9"
A1 == <<1, 0>>
A2 == <<9>>
NoArg == << >>
All == <<97, 108, 108>>

Account(number, status) ==
    [Type |-> "TFSA", Number |-> number, Status |-> status, IsPrimary |-> TRUE,
     IsBilling |-> TRUE, ClientAccountType |-> "Individual"]

\* the account lists the provider may answer with; the last holds an
\* account without a number
AccountLists ==
    { <<Account(A2, "Active"), Account(A1, "Active")>>,
      <<Account(A1, "Closed")>>,
      <<Account(A2, "Active")>>,
      <<Account(A2, "Closed"), Account(NoArg, "Active")>> }

\* json.Marshal(account): the fields in struct order
MarshalAccount(a) ==
    <<a.Type, a.Number, a.Status, a.IsPrimary, a.IsBilling, a.ClientAccountType>>

\* json.Unmarshal(v, acc)
UnmarshalAccount(b) ==
    [Type |-> b[1], Number |-> b[2], Status |-> b[3], IsPrimary |-> b[4],
     IsBilling |-> b[5], ClientAccountType |-> b[6]]

\* a loop that leaves in the bucket the accounts of the list and no other
PutAccounts_wholesale(bk, accounts) ==
    [ok |-> \A n \in 1..Len(accounts) : ~PutFails(accounts[n].Number),
     bk |-> [bk EXCEPT !.kv =
                [x \in {accounts[n].Number : n \in 1..Len(accounts)} |->
                    MarshalAccount(accounts[CHOOSE n \in 1..Len(accounts) :
                                                accounts[n].Number = x])]]]

\* the loop of saveAccounts: one Put per account, keyed by account.Number
RECURSIVE PutAccounts(_, _)
PutAccounts(bk, accounts) ==
    IF accounts = << >> THEN [ok |-> TRUE, bk |-> bk]
    ELSE LET a == Head(accounts)
         IN  IF PutFails(a.Number) THEN [ok |-> FALSE, bk |-> bk]
             ELSE PutAccounts(Put(bk, a.Number, MarshalAccount(a)), Tail(accounts))

\* saveAccounts(accounts): all the Puts in one db.Update, which commits or
\* rolls back as a whole
saveAccounts(d, accounts, ioOk) ==
    LET r == PutAccounts(d[BkACCOUNTS], accounts)
    IN  IF r.ok /\ ioOk
        THEN [db |-> WithBucket(d, BkACCOUNTS, r.bk), err |-> NoErr]
        ELSE [db |-> d, err |-> <<"could not save accounts", "could not insert account">>]

\* a loadAccounts that walks the cursor from the last key to the first
loadAccounts_backwards(d) ==
    LET vs == Values(d[BkACCOUNTS])
    IN  [n \in 1..Len(vs) |-> UnmarshalAccount(vs[Len(vs) + 1 - n])]

\* loadAccounts(): the accounts in cursor order
loadAccounts(d) ==
    LET vs == Values(d[BkACCOUNTS])
    IN  [n \in 1..Len(vs) |-> UnmarshalAccount(vs[n])]

\* ------------------------------------------------------------ activities
D1 == <<1>>
D2 == <<2>>

\* an activity as the provider reports it
Act(tradeDate, symbol, symbolID, quantity, type) ==
    [TradeDate |-> tradeDate, Symbol |-> symbol, SymbolID |-> symbolID,
     Quantity |-> quantity, Type |-> type]

T1 == Act(D1, "AAA", 11, 10, "Trades")
T2 == Act(D1, "BBB", 22, 5, "Trades")
T3 == Act(D2, "AAA", 12, 10, "Dividends")
\* a trade the provider reports without a tradeDate, and a dividend
T0 == Act(<< >>, "AAA", 13, 1, "Trades")
T4 == Act(D2, "CCC", 33, 1, "Dividends")

\* the activity histories the provider may hold: what it answers for the
\* most recent window, the one before, ...; nothing for the windows beyond
Feeds ==
    { << >>,
      << <<T1, T2>> >>,
      << <<T1>>, <<T2>> >>,
      << <<T3, T1>> >>,
      << <<T2>>, <<T2>> >>,
      << <<T1>>, <<T4, T0, T2>> >> }

\* the activities the provider reports for the n-th window back from now
FeedAt(f, n) == IF n + 1 <= Len(f) THEN f[n + 1] ELSE << >>

\* json.Unmarshal(body, activities) of src/main.go: the struct has no ID
DecodeActivity(a) == a

\* json.Unmarshal(body, activities) of the split revision: ID is absent from
\* the provider's document and stays 0
DecodeActivity_split(a) ==
    [ID |-> 0, TradeDate |-> a.TradeDate, Symbol |-> a.Symbol,
     SymbolID |-> a.SymbolID, Quantity |-> a.Quantity, Type |-> a.Type]

\* json.Marshal(activity) of src/main.go
MarshalActivity(a) == <<a.TradeDate, a.Symbol, a.SymbolID, a.Quantity, a.Type>>

UnmarshalActivity(b) ==
    [TradeDate |-> b[1], Symbol |-> b[2], SymbolID |-> b[3], Quantity |-> b[4],
     Type |-> b[5]]

\* json.Marshal(activity) of the split revision
MarshalActivity_split(a) ==
    <<a.ID, a.TradeDate, a.Symbol, a.SymbolID, a.Quantity, a.Type>>

UnmarshalActivity_split(b) ==
    [ID |-> b[1], TradeDate |-> b[2], Symbol |-> b[3], SymbolID |-> b[4],
     Quantity |-> b[5], Type |-> b[6]]

\* the key src/main.go stores an activity under
ActivityKey(a) == a.TradeDate

\* a loop that Puts every activity under a key of its own
RECURSIVE PutActivities_append(_, _)
PutActivities_append(bk, acts) ==
    IF acts = << >> THEN [ok |-> TRUE, bk |-> bk]
    ELSE LET a == DecodeActivity(Head(acts))
             n == Cardinality(DOMAIN bk.kv) + 1
         IN  PutActivities_append(Put(bk, <<n>> \o ActivityKey(a), MarshalActivity(a)),
                                  Tail(acts))

\* the loop of saveActivities in src/main.go: Put under the trade date
RECURSIVE PutActivities(_, _)
PutActivities(bk, acts) ==
    IF acts = << >> THEN [ok |-> TRUE, bk |-> bk]
    ELSE LET a == DecodeActivity(Head(acts))
         IN  IF PutFails(ActivityKey(a)) THEN [ok |-> FALSE, bk |-> bk]
             ELSE PutActivities(Put(bk, ActivityKey(a), MarshalActivity(a)), Tail(acts))

\* a loop that Puts under the trade date without drawing a sequence number
RECURSIVE PutActivities_split_dateKey(_, _)
PutActivities_split_dateKey(bk, acts) ==
    IF acts = << >> THEN [ok |-> TRUE, bk |-> bk]
    ELSE LET a == DecodeActivity_split(Head(acts))
         IN  PutActivities_split_dateKey(
                 Put(bk, a.TradeDate, MarshalActivity_split(a)), Tail(acts))

\* bk.NextSequence()
NextSequence(bk) == bk.sequence + 1

\* the loop of saveActivities in the split revision: Put under the next
\* sequence number of the bucket
RECURSIVE PutActivities_split(_, _)
PutActivities_split(bk, acts) ==
    IF acts = << >> THEN [ok |-> TRUE, bk |-> bk]
    ELSE LET seq == NextSequence(bk)
             a == [DecodeActivity_split(Head(acts)) EXCEPT !.ID = seq]
         IN  PutActivities_split(
                 Put([bk EXCEPT !.sequence = seq], itob(a.ID), MarshalActivity_split(a)),
                 Tail(acts))

\* a saveActivities that keeps the activities of every account in one bucket
saveActivities_oneBucket(rev, d, body, accountID, ioOk) ==
    IF ~body.json THEN [db |-> d, err |-> <<"error parsing JSON">>]
    ELSE LET name == <<"ACTIVITIES-", << >> >>
             d1 == CreateBucketIfNotExists(d, name)
             r == IF rev = "main" THEN PutActivities(d1[name], body.doc)
                  ELSE PutActivities_split(d1[name], body.doc)
         IN  IF r.ok /\ ioOk
             THEN [db |-> WithBucket(d1, name, r.bk), err |-> NoErr]
             ELSE [db |-> d, err |-> <<"could not save activities">>]

\* a saveActivities whose failed transaction keeps what was Put before
saveActivities_partial(rev, d, body, accountID, ioOk) ==
    IF ~body.json THEN [db |-> d, err |-> <<"error parsing JSON">>]
    ELSE LET name == BkACTIVITIES(accountID)
             d1 == CreateBucketIfNotExists(d, name)
             r == IF rev = "main" THEN PutActivities(d1[name], body.doc)
                  ELSE PutActivities_split(d1[name], body.doc)
         IN  [db |-> WithBucket(d1, name, r.bk),
              err |-> IF r.ok /\ ioOk THEN NoErr ELSE <<"could not save activities">>]

\* saveActivities(body, accountID): parse, then bucket creation and all the
\* Puts in one db.Update, which commits or rolls back as a whole
saveActivities(rev, d, body, accountID, ioOk) ==
    IF ~body.json THEN [db |-> d, err |-> <<"error parsing JSON">>]
    ELSE LET name == BkACTIVITIES(accountID)
             d1 == CreateBucketIfNotExists(d, name)
             r == IF rev = "main" THEN PutActivities(d1[name], body.doc)
                  ELSE PutActivities_split(d1[name], body.doc)
         IN  IF r.ok /\ ioOk
             THEN [db |-> WithBucket(d1, name, r.bk), err |-> NoErr]
             ELSE [db |-> d, err |-> <<"could not save activities">>]

\* loadActivities(accountID) of src/main.go
loadActivities(d, accountID) ==
    IF ~HasBucket(d, BkACTIVITIES(accountID))
    THEN [activities |-> << >>,
          err |-> <<"could not load activities", "couldn't get bucket">>]
    ELSE LET vs == Values(d[BkACTIVITIES(accountID)])
         IN  [activities |-> [n \in 1..Len(vs) |-> UnmarshalActivity(vs[n])],
              err |-> NoErr]

\* a loadActivities that appends every record, whatever tradeType is
loadActivities_split_unfiltered(d, accountID, type) ==
    IF ~HasBucket(d, BkACTIVITIES(accountID))
    THEN [activities |-> << >>,
          err |-> <<"could not load activities", "couldn't get bucket">>]
    ELSE LET vs == Values(d[BkACTIVITIES(accountID)])
         IN  [activities |-> [n \in 1..Len(vs) |-> UnmarshalActivity_split(vs[n])],
              err |-> NoErr]

\* loadActivities(accountID, tradeType) of the split revision
loadActivities_split(d, accountID, type) ==
    IF ~HasBucket(d, BkACTIVITIES(accountID))
    THEN [activities |-> << >>,
          err |-> <<"could not load activities", "couldn't get bucket">>]
    ELSE LET vs == Values(d[BkACTIVITIES(accountID)])
             all == [n \in 1..Len(vs) |-> UnmarshalActivity_split(vs[n])]
         IN  [activities |-> SelectSeq(all, LAMBDA a : type = "all" \/ type = a.Type),
              err |-> NoErr]

\* ------------------------------------------------------------ the windows
DaysPerYear == 365
\* the horizon in quarter days: 365 * 2.25 and 365 * 2.5 days
HorizonQ(rev) == IF rev = "main" THEN DaysPerYear * 9 ELSE DaysPerYear * 10
\* rounding the number of blocks up instead of truncating it
IntDays_roundUp(rev) == (HorizonQ(rev) + 4 * BlockDays - 1) \div (4 * BlockDays)

\* int(days), days := horizon / 30
IntDays(rev) == HorizonQ(rev) \div (4 * BlockDays)
\* the AddDate at the end of the loop body
StepDays(rev) == IF rev = "main" THEN 30 ELSE 31

\* a fold that keeps the symbolID a symbol was first seen with
RECURSIVE FoldSymbols_firstWins(_, _)
FoldSymbols_firstWins(symbols, trades) ==
    IF trades = << >> THEN symbols
    ELSE LET t == Head(trades)
         IN  FoldSymbols_firstWins(
                 [x \in (DOMAIN symbols) \cup {t.Symbol} |->
                     IF x \in DOMAIN symbols THEN symbols[x] ELSE t.SymbolID],
                 Tail(trades))

\* loadAllHistoricalSymbols: symbols[trade.Symbol] = trade.SymbolID, in order
RECURSIVE FoldSymbols(_, _)
FoldSymbols(symbols, trades) ==
    IF trades = << >> THEN symbols
    ELSE LET t == Head(trades)
         IN  FoldSymbols([x \in (DOMAIN symbols) \cup {t.Symbol} |->
                             IF x = t.Symbol THEN t.SymbolID ELSE symbols[x]],
                         Tail(trades))

\* loadAllHistoricalSymbols(accountID)
loadAllHistoricalSymbols(d, accountID) ==
    LET l == loadActivities_split(d, accountID, "Trades")
    IN  IF l.err # NoErr THEN [symbols |-> << >>, err |-> l.err]
        ELSE [symbols |-> FoldSymbols(<< >>, l.activities), err |-> NoErr]

\* ---------------------------------------------------------------- main
Commands == {"setup", "list-accounts", "refresh-activities",
             "list-activities", "list-symbols", "bogus"}
TakesArg == {"refresh-activities", "list-activities", "list-symbols"}
TradeTypes == {"all", "Trades", "trades"}
NoOutput == [kind |-> "none", value |-> << >>]
NoBearer == <<"", 0>>
AccountIDs == {NoArg, A1, A2}

\* setupDB(): open test.db, create ROOT and ACCOUNTS if they do not exist
setupDB(d, ioOk) ==
    IF ioOk
    THEN [db |-> CreateBucketIfNotExists(CreateBucketIfNotExists(d, BkROOT), BkACCOUNTS),
          err |-> NoErr]
    ELSE [db |-> d, err |-> <<"could not open db">>]

Init ==
    /\ revision \in Revisions
    /\ db = << >>
    /\ upstream = [issued |-> 0, valid |-> SeedToken]
    /\ feed \in Feeds
    /\ runs = 0
    /\ pc = "idle"
    /\ command = "list-accounts"
    /\ arg = NoArg
    /\ tradeType = "all"
    /\ env = NotSet
    /\ token = Nil
    /\ err = NoErr
    /\ exchanges = << >>
    /\ found = Nil
    /\ dispatched = FALSE
    /\ bearer = NoBearer
    /\ fault = "none"
    /\ queue = << >>
    /\ acct = NoArg
    /\ i = 0
    /\ startDate = 0
    /\ endDate = 0
    /\ windows = << >>
    /\ synced = << >>
    /\ completed = << >>
    /\ output = NoOutput
    /\ fetched = << >>
    /\ listedBefore = << >>
    /\ stored = [a \in AccountIDs |-> {}]
    /\ lastSaved = [a \in AccountIDs |-> << >>]

\* the REFRESH_TOKEN a process is started with: not set, the seed, or set to
\* the empty string. initToken reads it only when no token is stored, and
\* the empty value is enumerated for the stores where it is read.
Environments(d) ==
    {NotSet, SeedToken} \cup
    (IF HasBucket(d, BkROOT) /\ KeyTOKEN \in DOMAIN d[BkROOT].kv
     THEN {} ELSE {EmptyValue})

\* os.LookupEnv that finds every variable
LookupEnv_alwaysFound(e) == [value |-> e, found |-> TRUE]

\* os.LookupEnv("REFRESH_TOKEN")
LookupEnv(e) == [value |-> e, found |-> e # NotSet]

\* a process is started: flag.Parse() and setupDB()
Main ==
    /\ pc = "idle"
    /\ runs < MaxRuns
    /\ runs' = runs + 1
    /\ \E c \in Commands, e \in Environments(db), ioOk \in BOOLEAN :
         /\ command' = c
         /\ env' = e
         /\ \E a \in (IF c \in TakesArg THEN {NoArg, All, A1, A2} ELSE {NoArg}) :
              arg' = a
         /\ \E t \in (IF c = "list-activities" /\ revision = "split"
                      THEN TradeTypes ELSE {"all"}) :
              tradeType' = t
         /\ LET r == setupDB(db, ioOk)
            IN  /\ db' = r.db
                /\ err' = r.err
                /\ fault' = IF ioOk THEN "none" ELSE "io"
                /\ pc' = IF r.err = NoErr THEN "initToken" ELSE "exit"
    /\ UNCHANGED <<revision, upstream, feed, token, exchanges, found, dispatched,
                   bearer, output, stored, lastSaved>>
    /\ UNCHANGED syncVars
    /\ UNCHANGED setupVars

\* an initToken that prefers REFRESH_TOKEN whenever it is set
Presented_envFirst(loaded, e) ==
    IF e # NotSet THEN e ELSE loaded.token.RefreshToken

\* the refresh token initToken passes to requestToken: the persisted one,
\* or REFRESH_TOKEN when none is persisted
Presented(loaded, e) ==
    IF loaded.err # NoErr THEN e ELSE loaded.token.RefreshToken

\* initToken(): loadToken, then requestToken
InitToken ==
    /\ pc = "initToken"
    /\ LET loaded == loadToken(db)
       IN  /\ found' = loaded.token
           /\ IF loaded.err # NoErr /\ ~LookupEnv(env).found
              THEN /\ err' = <<"no token saved in DB, and no REFRESH_TOKEN env var set">>
                   /\ pc' = "exit"
                   /\ fault' = "config"
                   /\ UNCHANGED <<db, upstream, token, exchanges>>
              ELSE \E outcome \in ExchangeOutcomes(upstream, Presented(loaded, env)) :
                   \E ioOk \in (IF outcome = "ok" THEN BOOLEAN ELSE {TRUE}) :
                     LET r == requestToken(db, loaded.token, upstream, outcome, ioOk)
                     IN  /\ exchanges' = Append(exchanges, Presented(loaded, env))
                         /\ upstream' = UpstreamAfter(upstream, outcome)
                         /\ db' = r.db
                         /\ token' = r.token
                         /\ err' = r.err
                         /\ fault' = Fault(outcome, TRUE, ioOk)
                         /\ pc' = IF r.err = NoErr THEN "dispatch" ELSE "exit"
    /\ UNCHANGED <<revision, feed, runs, command, arg, tradeType, env, dispatched,
                   bearer, output, stored, lastSaved>>
    /\ UNCHANGED syncVars
    /\ UNCHANGED setupVars

\* the outcomes of an authenticated GET: transport error, non-200, or a body
\* drawn from docs (or one that does not parse)
AuthOutcomes(docs) ==
    {[outcome |-> "transport", body |-> Garbage],
     [outcome |-> "status", body |-> Garbage],
     [outcome |-> "ok", body |-> Garbage]}
    \cup {[outcome |-> "ok", body |-> Body(doc)] : doc \in docs}

\* requestAccounts(): doReq and json.Unmarshal
requestAccounts(resp) ==
    IF resp.outcome # "ok"
    THEN [accounts |-> << >>, err |-> <<"error requesting accounts">> \o doReqErr(resp.outcome)]
    ELSE IF ~resp.body.json
    THEN [accounts |-> << >>, err |-> <<"error parsing JSON">>]
    ELSE [accounts |-> resp.body.doc, err |-> NoErr]

\* case "setup": setup() = requestAccounts, saveAccounts
Setup ==
    /\ pc = "dispatch"
    /\ command = "setup"
    /\ dispatched' = TRUE
    /\ bearer' = token.AccessToken
    /\ \E resp \in AuthOutcomes(AccountLists) :
       \E ioOk \in (IF resp.body.json THEN BOOLEAN ELSE {TRUE}) :
         LET req == requestAccounts(resp)
             sv == saveAccounts(db, req.accounts, ioOk)
         IN  /\ fault' = Fault(resp.outcome, resp.body.json, ioOk /\ sv.err = NoErr)
             /\ fetched' = req.accounts
             /\ IF req.err # NoErr
                THEN err' = req.err /\ db' = db
                ELSE err' = sv.err /\ db' = sv.db
    /\ listedBefore' = loadAccounts(db)
    /\ pc' = "exit"
    /\ UNCHANGED <<revision, upstream, feed, runs, command, arg, tradeType, env,
                   token, exchanges, found, output, stored, lastSaved>>
    /\ UNCHANGED syncVars

\* case "list-accounts"
ListAccounts ==
    /\ pc = "dispatch"
    /\ command = "list-accounts"
    /\ dispatched' = TRUE
    /\ output' = [kind |-> "accounts", value |-> loadAccounts(db)]
    /\ err' = NoErr
    /\ pc' = "exit"
    /\ UNCHANGED fault
    /\ UNCHANGED <<revision, db, upstream, feed, runs, command, arg, tradeType,
                   env, token, exchanges, found, bearer, stored, lastSaved>>
    /\ UNCHANGED syncVars
    /\ UNCHANGED setupVars

\* the Number of every account, in order
Numbers(accounts) == [n \in 1..Len(accounts) |-> accounts[n].Number]

\* requestActivities(accountID) is entered for the head of q: the most
\* recent 30 days first. The two time.Now() calls are taken as one instant.
EnterRequestActivities(q) ==
    /\ acct' = Head(q)
    /\ queue' = Tail(q)
    /\ i' = 0
    /\ startDate' = 0 - WindowWidthDays
    /\ endDate' = 0
    /\ windows' = << >>
    /\ synced' = Append(synced, Head(q))
    /\ pc' = "sync"

\* a refreshAllActivities that returns after the first account
RefreshTargets_firstOnly(rev, d, a) ==
    IF a = NoArg /\ rev = "split"
    THEN [accounts |-> << >>,
          err |-> <<"refresh-activities command requires an accountID argument or 'all'">>]
    ELSE IF a = All
    THEN [accounts |-> LET all == Numbers(loadAccounts(d))
                       IN  IF all = << >> THEN << >> ELSE <<Head(all)>>,
          err |-> NoErr]
    ELSE [accounts |-> <<a>>, err |-> NoErr]

\* the accounts the refresh-activities case syncs, or the error it ends with
\* at once. Without an argument src/main.go sets err but does not break, and
\* goes on to refreshActivities("").
RefreshTargets(rev, d, a) ==
    IF a = NoArg /\ rev = "split"
    THEN [accounts |-> << >>,
          err |-> <<"refresh-activities command requires an accountID argument or 'all'">>]
    ELSE IF a = All
    THEN [accounts |-> Numbers(loadAccounts(d)), err |-> NoErr]
    ELSE [accounts |-> <<a>>, err |-> NoErr]

\* case "refresh-activities": refreshAllActivities() or refreshActivities(arg)
RefreshActivities ==
    /\ pc = "dispatch"
    /\ command = "refresh-activities"
    /\ dispatched' = TRUE
    /\ LET r == RefreshTargets(revision, db, arg)
       IN  IF r.accounts = << >>
           THEN /\ err' = r.err
                /\ pc' = "exit"
                /\ UNCHANGED syncVars
           ELSE /\ err' = NoErr
                /\ EnterRequestActivities(r.accounts)
                /\ UNCHANGED completed
    /\ UNCHANGED fault
    /\ UNCHANGED <<revision, db, upstream, feed, runs, command, arg, tradeType,
                   env, token, exchanges, found, bearer, output, stored, lastSaved>>
    /\ UNCHANGED setupVars

\* a loop body that goes on to the next window when the request failed
requestActivities_continue(rev, d, accountID, resp, ioOk) ==
    IF resp.outcome # "ok"
    THEN [db |-> d, err |-> NoErr]
    ELSE LET sv == saveActivities(rev, d, resp.body, accountID, ioOk)
         IN  IF sv.err # NoErr
             THEN [db |-> sv.db, err |-> <<"error saving activities">> \o sv.err]
             ELSE [db |-> sv.db, err |-> NoErr]

\* the body of the loop of requestActivities: doReq, then saveActivities;
\* err is the error requestActivities returns with, if any
requestActivities(rev, d, accountID, resp, ioOk) ==
    IF resp.outcome # "ok"
    THEN [db |-> d, err |-> <<"error requesting accounts">> \o doReqErr(resp.outcome)]
    ELSE LET sv == saveActivities(rev, d, resp.body, accountID, ioOk)
         IN  IF sv.err # NoErr
             THEN [db |-> sv.db, err |-> <<"error saving activities">> \o sv.err]
             ELSE [db |-> sv.db, err |-> NoErr]

\* one iteration of the loop of requestActivities: the request for
\* [startDate, endDate], the save, and the step back; or the return
RequestWindow ==
    /\ pc = "sync"
    /\ i <= IntDays(revision)
    /\ windows' = Append(windows, <<startDate, endDate>>)
    /\ bearer' = token.AccessToken
    /\ \E resp \in AuthOutcomes({FeedAt(feed, i)}) :
       \E ioOk \in (IF resp.body.json THEN BOOLEAN ELSE {TRUE}) :
         LET r == requestActivities(revision, db, acct, resp, ioOk)
         IN  /\ fault' = Fault(resp.outcome, resp.body.json, ioOk /\ r.err = NoErr)
             /\ db' = r.db
             /\ IF r.err # NoErr
                THEN /\ err' = r.err
                     /\ pc' = "exit"
                     /\ UNCHANGED <<i, startDate, endDate, stored, lastSaved>>
                ELSE /\ stored' = [stored EXCEPT ![acct] = @ \cup
                                     {resp.body.doc[n] : n \in 1..Len(resp.body.doc)}]
                     /\ lastSaved' = [lastSaved EXCEPT ![acct] =
                                        IF resp.body.doc = << >> THEN @
                                        ELSE resp.body.doc]
                     /\ startDate' = startDate - StepDays(revision)
                     /\ endDate' = endDate - StepDays(revision)
                     /\ i' = i + 1
                     /\ UNCHANGED <<err, pc>>
    /\ UNCHANGED <<revision, upstream, feed, runs, command, arg,
                   tradeType, env, token, exchanges, found, dispatched, output,
                   queue, acct, synced, completed>>
    /\ UNCHANGED setupVars

\* the loop of requestActivities is over: return nil, and the loop of
\* refreshAllActivities goes on to the next account
SyncReturn ==
    /\ pc = "sync"
    /\ i > IntDays(revision)
    /\ completed' = Append(completed, acct)
    /\ IF queue = << >>
       THEN /\ pc' = "exit"
            /\ UNCHANGED <<queue, acct, i, startDate, endDate, windows, synced>>
       ELSE EnterRequestActivities(queue)
    /\ UNCHANGED fault
    /\ UNCHANGED <<revision, db, upstream, feed, runs, command, arg, tradeType,
                   env, token, err, exchanges, found, dispatched, bearer, output,
                   stored, lastSaved>>
    /\ UNCHANGED setupVars

\* case "list-activities"
ListActivities ==
    /\ pc = "dispatch"
    /\ command = "list-activities"
    /\ dispatched' = TRUE
    /\ LET l == IF revision = "main" THEN loadActivities(db, arg)
                ELSE loadActivities_split(db, arg, tradeType)
       IN  IF arg = NoArg
           THEN /\ err' = <<"list-activities command requires an accountID argument">>
                /\ UNCHANGED output
           ELSE /\ err' = l.err
                /\ output' = IF l.err = NoErr
                             THEN [kind |-> "activities", value |-> l.activities]
                             ELSE NoOutput
    /\ pc' = "exit"
    /\ UNCHANGED fault
    /\ UNCHANGED <<revision, db, upstream, feed, runs, command, arg, tradeType,
                   env, token, exchanges, found, bearer, stored, lastSaved>>
    /\ UNCHANGED syncVars
    /\ UNCHANGED setupVars

\* case "list-symbols" (split revision)
ListSymbols ==
    /\ pc = "dispatch"
    /\ command = "list-symbols"
    /\ revision = "split"
    /\ dispatched' = TRUE
    /\ LET l == loadAllHistoricalSymbols(db, arg)
       IN  IF arg = NoArg
           THEN /\ err' = <<"list-activities command requires an accountID argument">>
                /\ UNCHANGED output
           ELSE /\ err' = l.err
                /\ output' = IF l.err = NoErr
                             THEN [kind |-> "symbols", value |-> l.symbols]
                             ELSE NoOutput
    /\ pc' = "exit"
    /\ UNCHANGED fault
    /\ UNCHANGED <<revision, db, upstream, feed, runs, command, arg, tradeType,
                   env, token, exchanges, found, bearer, stored, lastSaved>>
    /\ UNCHANGED syncVars
    /\ UNCHANGED setupVars

\* the commands a revision knows
Known(rev) ==
    {"setup", "list-accounts", "refresh-activities", "list-activities"}
    \cup (IF rev = "split" THEN {"list-symbols"} ELSE {})

\* default: invalid command
InvalidCommand ==
    /\ pc = "dispatch"
    /\ command \notin Known(revision)
    /\ dispatched' = TRUE
    /\ err' = <<"invalid command">>
    /\ pc' = "exit"
    /\ UNCHANGED fault
    /\ UNCHANGED <<revision, db, upstream, feed, runs, command, arg, tradeType,
                   env, token, exchanges, found, bearer, output, stored, lastSaved>>
    /\ UNCHANGED syncVars
    /\ UNCHANGED setupVars

\* db.Close() and os.Exit, or log.Fatal: the process and its memory are gone
Exit ==
    /\ pc = "exit"
    /\ pc' = "idle"
    /\ command' = "list-accounts"
    /\ arg' = NoArg
    /\ tradeType' = "all"
    /\ env' = NotSet
    /\ token' = Nil
    /\ err' = NoErr
    /\ exchanges' = << >>
    /\ found' = Nil
    /\ dispatched' = FALSE
    /\ bearer' = NoBearer
    /\ fault' = "none"
    /\ queue' = << >>
    /\ acct' = NoArg
    /\ i' = 0
    /\ startDate' = 0
    /\ endDate' = 0
    /\ windows' = << >>
    /\ synced' = << >>
    /\ completed' = << >>
    /\ output' = NoOutput
    /\ fetched' = << >>
    /\ listedBefore' = << >>
    /\ UNCHANGED persistent

Next ==
    \/ Main
    \/ InitToken
    \/ Setup
    \/ ListAccounts
    \/ RefreshActivities
    \/ RequestWindow
    \/ SyncReturn
    \/ ListActivities
    \/ ListSymbols
    \/ InvalidCommand
    \/ Exit

Spec == Init /\ [][Next]_vars

\* ---------------------------------------------------------------- claims
Range(f) == {f[n] : n \in DOMAIN f}
CeilDiv(a, b) == (a + b - 1) \div b

\* requestActivities has issued its last request and none failed
SyncOver == pc = "sync" /\ fault = "none" /\ ~(i <= IntDays(revision))

\* C1: in the date-keyed revision, any two activities of an account that
\* saveActivities committed with the same tradeDate but a different symbol
\* or quantity are both returned by loadActivities.
C1_BothRetrievable ==
    revision = "main" =>
        \A a \in {A1, A2} : \A x, y \in stored[a] :
            (x.TradeDate = y.TradeDate
                /\ (x.Symbol # y.Symbol \/ x.Quantity # y.Quantity))
            => LET l == loadActivities(db, a)
               IN  l.err = NoErr /\ {x, y} \subseteq Range(l.activities)

\* C2 as stated: a failure-free requestActivities issues ceil(H/W)+1 requests.
C2_CeilPlusOne ==
    SyncOver =>
        Len(windows) = CeilDiv(HorizonQ(revision), 4 * WindowWidthDays) + 1

\* C2 as amended: a failure-free requestActivities issues floor(H/W)+1
\* requests, whatever the windows hold: 28 in src/main.go, 31 in the split
\* revision.
C2_FloorPlusOne ==
    SyncOver =>
        /\ Len(windows) = (HorizonQ(revision) \div (4 * WindowWidthDays)) + 1
        /\ Len(windows) = IF revision = "main" THEN 28 ELSE 31

C2_Witness == SyncOver /\ feed # << >> /\ Len(windows) = 28

\* C3: the windows of a failure-free requestActivities cover
\* [now - H - W, now]: the first ends at now, each ends no earlier than the
\* start of the one requested before it, and the last starts at or before
\* now - H - W.
C3_FullCoverage ==
    /\ (pc = "sync" /\ fault = "none" /\ windows # << >>) =>
           /\ windows[1][2] = 0
           /\ \A k \in 2..Len(windows) : windows[k][2] >= windows[k - 1][1]
    /\ SyncOver =>
           4 * windows[Len(windows)][1]
               <= 0 - (HorizonQ(revision) + 4 * WindowWidthDays)

\* C4: a successful initToken that found no persisted token has written the
\* token the provider returned for the seed under ROOT/TOKEN: loading it
\* yields that token, which is the one in memory, and its refreshToken is
\* the newly issued one, not the seed.
C4_BootstrapPersisted ==
    (pc = "dispatch" /\ found = Nil) =>
        LET l == loadToken(db)
        IN  /\ exchanges = <<SeedToken>>
            /\ l.err = NoErr
            /\ l.token = IssuedToken(upstream.issued)
            /\ l.token = token
            /\ l.token.RefreshToken = upstream.valid
            /\ l.token.RefreshToken # SeedToken

C4_Witness == pc = "dispatch" /\ found = Nil /\ env = SeedToken /\ upstream.issued = 1

\* C5: a run makes at most one token exchange, and makes it before the
\* command is dispatched; a run that found a persisted token presents that
\* token's refreshToken, whatever the command and whether or not
\* REFRESH_TOKEN is set; the seed is presented only when none was found.
C5_OneExchangeOfStored ==
    /\ Len(exchanges) <= 1
    /\ (pc \in {"dispatch", "sync"} \/ dispatched) => Len(exchanges) = 1
    /\ found # Nil => exchanges = <<found.RefreshToken>>
    /\ (exchanges # << >> /\ found = Nil) => exchanges = <<env>>
    /\ exchanges = <<SeedToken>> => found = Nil

C5_Witness ==
    found # Nil /\ env = SeedToken /\ dispatched /\ command = "bogus"

\* C6: the bearer token of every authenticated request is the access token
\* of the in-memory token, which is the record stored under ROOT/TOKEN; ROOT
\* holds no other key, and after a successful exchange the record is the
\* token that exchange returned.
C6_SingleLiveToken ==
    /\ bearer # NoBearer =>
           /\ bearer = token.AccessToken
           /\ loadToken(db).err = NoErr
           /\ loadToken(db).token = token
    /\ HasBucket(db, BkROOT) => DOMAIN db[BkROOT].kv \subseteq {KeyTOKEN}
    /\ pc = "dispatch" => loadToken(db).token = IssuedToken(upstream.issued)

C6_Witness == bearer # NoBearer /\ found # Nil /\ pc = "sync" /\ i = 2

\* the exchange of this run ended with the given fault, the command not yet
\* dispatched
ExchangeFault(f) == exchanges # << >> /\ ~dispatched /\ fault = f

\* C7: when the exchange succeeded and the write of the token failed, the
\* run ends with an error before the command is dispatched, and the error
\* differs from the one of a failed request and the one of a malformed
\* payload.
C7_SaveFailureSurfaced ==
    /\ ExchangeFault("io") =>
           /\ pc = "exit"
           /\ err # NoErr
           /\ Head(err) \notin {"error requesting token", "error parsing JSON"}
    /\ (ExchangeFault("transport") \/ ExchangeFault("status")) =>
           pc = "exit" /\ Head(err) = "error requesting token"
    /\ ExchangeFault("malformed") =>
           pc = "exit" /\ Head(err) = "error parsing JSON"

C7_Witness == ExchangeFault("io") /\ pc = "exit" /\ found # Nil

\* C8: every window of an account sync is requested once, newest first,
\* starting at the window that ends at now; when the request, the parse or
\* the store of a window fails, the run ends with an error and that window
\* is the last one requested.
C8_AbortAtFirstFailure ==
    synced # << >> =>
        /\ \A k \in 1..Len(windows) :
               windows[k] = <<0 - WindowWidthDays - (k - 1) * StepDays(revision),
                              0 - (k - 1) * StepDays(revision)>>
        /\ (fault = "none" /\ pc = "sync") => Len(windows) = i
        /\ fault # "none" =>
               /\ pc = "exit"
               /\ err # NoErr
               /\ Len(windows) = i + 1
               /\ windows[Len(windows)] = <<startDate, endDate>>
               /\ acct = synced[Len(synced)]
               /\ Len(completed) = Len(synced) - 1

\* a run after one that failed at the second window of account "10" has
\* requested the window that ends at now again
C8_Witness ==
    /\ revision = "split"
    /\ feed = << <<T1>>, <<T2>> >>
    /\ acct = A1
    /\ stored[A1] = {T1}
    /\ db[BkACTIVITIES(A1)].sequence = 2
    /\ pc = "sync"
    /\ windows = << <<0 - WindowWidthDays, 0>> >>

IsPrefix(p, q) == Len(p) <= Len(q) /\ \A k \in 1..Len(p) : p[k] = q[k]
KeyOrder == SortedKeys(DOMAIN db[BkACCOUNTS].kv)

\* C9: refresh-activities all syncs the persisted accounts in ACCOUNTS key
\* order; the first failing sync ends the run with its error and no later
\* account is synced; without a failure every account is synced once.
C9_SyncAllInKeyOrder ==
    (command = "refresh-activities" /\ arg = All /\ dispatched) =>
        /\ IsPrefix(synced, KeyOrder)
        /\ IsPrefix(completed, synced)
        /\ Len(synced) - Len(completed) <= 1
        /\ fault # "none" =>
               /\ pc = "exit"
               /\ Head(err) \in {"error requesting accounts", "error saving activities"}
               /\ Len(completed) = Len(synced) - 1
        /\ (pc = "exit" /\ fault = "none") => (err = NoErr /\ completed = KeyOrder)

C9_Witness ==
    /\ command = "refresh-activities"
    /\ arg = All
    /\ pc = "exit"
    /\ err = NoErr
    /\ completed = <<A1, A2>>

\* C10: in the date-keyed revision, committing the non-empty response that
\* was the last one committed to the partition leaves the store as it was.
C10_ResaveIdempotent ==
    [][(/\ RequestWindow
        /\ revision = "main"
        /\ fault' = "none"
        /\ FeedAt(feed, i) # << >>
        /\ lastSaved[acct] = FeedAt(feed, i)) => db' = db]_vars

C10_Witness ==
    /\ revision = "main"
    /\ feed = << <<T2>>, <<T2>> >>
    /\ pc = "sync"
    /\ i = 2
    /\ fault = "none"

\* the bucket tx.CreateBucketIfNotExists(name) hands to the transaction
BucketOrEmpty(d, name) == IF HasBucket(d, name) THEN d[name] ELSE EmptyBucket

\* how often x occurs in a response
Occurrences(resp, x) == Cardinality({n \in 1..Len(resp) : resp[n] = x})

\* how many records of a sequence-keyed bucket hold the activity x
Copies(bk, x) ==
    Cardinality({k \in DOMAIN bk.kv :
        [UnmarshalActivity_split(bk.kv[k]) EXCEPT !.ID = 0] = DecodeActivity_split(x)})

\* C11: in the sequence-keyed revision, a committed response of n records
\* is stored under the n sequence numbers after the bucket's counter, none
\* of them a key of the bucket before; the records already there are kept
\* as they were, the bucket grows by n records, and every activity of the
\* response has as many more copies in the bucket as the response holds of
\* it, also when the window was committed before.
C11_FreshSequenceKeys ==
    [][(RequestWindow /\ revision = "split" /\ fault' = "none") =>
        LET name == BkACTIVITIES(acct)
            old == BucketOrEmpty(db, name)
            new == db'[name]
            resp == FeedAt(feed, i)
            n == Len(resp)
        IN  /\ new.sequence = old.sequence + n
            /\ DOMAIN new.kv =
                   DOMAIN old.kv \cup {itob(old.sequence + k) : k \in 1..n}
            /\ \A k \in 1..n : itob(old.sequence + k) \notin DOMAIN old.kv
            /\ \A k \in DOMAIN old.kv : new.kv[k] = old.kv[k]
            /\ Cardinality(DOMAIN new.kv) = Cardinality(DOMAIN old.kv) + n
            /\ \A k \in 1..n :
                   UnmarshalActivity_split(new.kv[itob(old.sequence + k)])
                       = [DecodeActivity_split(resp[k]) EXCEPT !.ID = old.sequence + k]
            /\ \A x \in Range(resp) :
                   Copies(new, x) = Copies(old, x) + Occurrences(resp, x)]_vars

\* the window that holds T1 and T2 has been committed in two runs
C11_Witness ==
    /\ revision = "split"
    /\ feed = << <<T1, T2>> >>
    /\ pc = "sync"
    /\ acct = A1
    /\ i = 1
    /\ fault = "none"
    /\ db[BkACTIVITIES(A1)].sequence = 4
    /\ Copies(db[BkACTIVITIES(A1)], T1) = 2
    /\ Copies(db[BkACTIVITIES(A1)], T2) = 2

\* a listing command was given an accountID and has run
Listed ==
    /\ dispatched
    /\ pc = "exit"
    /\ command \in {"list-activities", "list-symbols"}
    /\ arg # NoArg

\* C12: list-activities and list-symbols end without an error for every
\* account, and with an empty listing when no stored activity matches, also
\* for an account that was never synced.
C12_EmptyListingNoError ==
    Listed =>
        /\ err = NoErr
        /\ output.kind \in {"activities", "symbols"}
        /\ ~HasBucket(db, BkACTIVITIES(arg)) => output.value = << >>

\* every account of the list is stored in the ACCOUNTS bucket as it is
StoredAsIs(d, accounts) ==
    \A n \in 1..Len(accounts) :
        /\ accounts[n].Number \in DOMAIN d[BkACCOUNTS].kv
        /\ d[BkACCOUNTS].kv[accounts[n].Number] = MarshalAccount(accounts[n])

\* setup has run and neither the request nor the save failed
SetupDone == command = "setup" /\ dispatched /\ pc = "exit" /\ fault = "none"

\* C13: loadAccounts returns the records of the ACCOUNTS partition, one per
\* account number, in ascending key order, and list-accounts logs that
\* sequence; after a successful setup every account fetched is among them
\* as fetched; a setup that fetches accounts which are all stored as fetched
\* already (as when the provider's list is the one of the setup before)
\* leaves the partition and the listing as they were.
C13_AccountsListing ==
    /\ [](HasBucket(db, BkACCOUNTS) =>
            LET l == loadAccounts(db)
                keys == DOMAIN db[BkACCOUNTS].kv
            IN  /\ {l[n].Number : n \in 1..Len(l)} = keys
                /\ Len(l) = Cardinality(keys)
                /\ \A n \in 1..Len(l) :
                       MarshalAccount(l[n]) = db[BkACCOUNTS].kv[l[n].Number]
                /\ \A n, m \in 1..Len(l) :
                       n < m => BytesLess(l[n].Number, l[m].Number)
                /\ output.kind = "accounts" => output.value = l
                /\ SetupDone => Range(fetched) \subseteq Range(l))
    /\ [][(Setup /\ fault' = "none" /\ StoredAsIs(db, fetched')) =>
            /\ db' = db
            /\ loadAccounts(db') = listedBefore']_vars

\* setup has fetched the two accounts, "9" first, that the setup of an
\* earlier run had stored
C13_Witness ==
    /\ SetupDone
    /\ fetched = <<Account(A2, "Active"), Account(A1, "Active")>>
    /\ listedBefore = <<Account(A1, "Active"), Account(A2, "Active")>>
    /\ loadAccounts(db) = listedBefore

\* the type filters asked about: the stored types, and near misses of them
Filters == {"all", "Trades", "trades", "Trade", "Dividends"}

\* C14: in the split revision, for every account with an activities bucket
\* and every store a run has left behind, loadActivities(accountID, "all")
\* returns one record per stored key, each the stored one, in key order, and
\* loadActivities(accountID, t) returns those of them whose Type is t
\* exactly, in the same order: as many as there are, none of another type;
\* for an account without a bucket every listing is empty; list-activities
\* logs the listing.
C14_TypeFilter ==
    revision = "split" =>
        /\ \A a \in {A1, A2, All} :
               (pc = "idle" /\ HasBucket(db, BkACTIVITIES(a))) =>
                   LET bk == db[BkACTIVITIES(a)]
                       all == loadActivities_split(db, a, "all")
                   IN  /\ all.err = NoErr
                       /\ Len(all.activities) = Cardinality(DOMAIN bk.kv)
                       /\ \A n \in 1..Len(all.activities) :
                              /\ itob(all.activities[n].ID) \in DOMAIN bk.kv
                              /\ MarshalActivity_split(all.activities[n])
                                     = bk.kv[itob(all.activities[n].ID)]
                              /\ \A m \in 1..(n - 1) :
                                     all.activities[m].ID < all.activities[n].ID
                       /\ \A t \in Filters \ {"all"} :
                              LET l == loadActivities_split(db, a, t)
                              IN  /\ l.err = NoErr
                                  /\ Range(l.activities) \subseteq Range(all.activities)
                                  /\ \A x \in Range(l.activities) : x.Type = t
                                  /\ Len(l.activities) = Cardinality(
                                         {n \in 1..Len(all.activities) :
                                              all.activities[n].Type = t})
                                  /\ \A n \in 1..Len(l.activities) :
                                         \A m \in 1..(n - 1) :
                                             l.activities[m].ID < l.activities[n].ID
        /\ \A a \in {A1, A2, All} :
               (pc = "idle" /\ ~HasBucket(db, BkACTIVITIES(a))) =>
                   \A t \in Filters :
                       loadActivities_split(db, a, t).activities = << >>
        /\ (Listed /\ command = "list-activities" /\ err = NoErr) =>
               output.value = loadActivities_split(db, arg, tradeType).activities

\* list-activities with the type Trades has listed the one trade of an
\* account that holds a dividend and a trade
C14_Witness ==
    /\ revision = "split"
    /\ Listed
    /\ command = "list-activities"
    /\ tradeType = "Trades"
    /\ err = NoErr
    /\ Len(output.value) = 1
    /\ output.value[1].Symbol = "AAA"
    /\ Len(loadActivities_split(db, arg, "all").activities) = 2
    /\ loadActivities_split(db, arg, "trades").activities = << >>

\* ROOT holds no TOKEN record
NoTokenStored(d) == ~(HasBucket(d, BkROOT) /\ KeyTOKEN \in DOMAIN d[BkROOT].kv)

\* C15: initToken with no token stored and REFRESH_TOKEN not set ends the
\* run with the configuration error: no exchange is made and the provider's
\* token state is untouched, the store is as initToken found it, and the
\* command is not dispatched.
C15_ConfigErrorNoRequest ==
    /\ [][(InitToken /\ NoTokenStored(db) /\ env = NotSet) =>
            /\ err' = <<"no token saved in DB, and no REFRESH_TOKEN env var set">>
            /\ fault' = "config"
            /\ pc' = "exit"
            /\ exchanges' = << >>
            /\ upstream' = upstream
            /\ db' = db
            /\ ~dispatched']_vars
    /\ [](fault = "config" =>
            /\ pc = "exit"
            /\ ~dispatched
            /\ exchanges = << >>
            /\ bearer = NoBearer
            /\ output = NoOutput
            /\ NoTokenStored(db))

\* a run without REFRESH_TOKEN after a bootstrap whose token was issued but
\* not stored
C15_Witness ==
    /\ fault = "config"
    /\ pc = "exit"
    /\ env = NotSet
    /\ upstream.issued = 1
    /\ command = "setup"
    /\ runs = 2

\* C16: in the split revision, for every account with an activities bucket
\* and every store a run has left behind, the keys of the mapping
\* loadAllHistoricalSymbols returns are the symbols of the stored activities
\* of type Trades, and each is mapped to the symbolID of the last of them in
\* cursor order that has the symbol; list-symbols gets that mapping.
C16_SymbolsOfTrades ==
    revision = "split" =>
        /\ \A a \in {A1, A2, All} :
               (pc = "idle" /\ HasBucket(db, BkACTIVITIES(a))) =>
                   LET r == loadAllHistoricalSymbols(db, a)
                       vs == Values(db[BkACTIVITIES(a)])
                       all == [n \in 1..Len(vs) |-> UnmarshalActivity_split(vs[n])]
                       trades == {n \in 1..Len(all) : all[n].Type = "Trades"}
                       last(sym) == CHOOSE n \in trades :
                                        /\ all[n].Symbol = sym
                                        /\ \A m \in trades :
                                               all[m].Symbol = sym => m <= n
                   IN  /\ r.err = NoErr
                       /\ DOMAIN r.symbols = {all[n].Symbol : n \in trades}
                       /\ \A sym \in DOMAIN r.symbols :
                              r.symbols[sym] = all[last(sym)].SymbolID
        /\ (Listed /\ command = "list-symbols" /\ err = NoErr) =>
               /\ output.kind = "symbols"
               /\ output.value = loadAllHistoricalSymbols(db, arg).symbols

\* list-symbols for an account that holds two trades of AAA, the later with
\* symbolID 13, a trade of BBB and a dividend of CCC
C16_Witness ==
    /\ revision = "split"
    /\ Listed
    /\ command = "list-symbols"
    /\ err = NoErr
    /\ feed = << <<T1>>, <<T4, T0, T2>> >>
    /\ db[BkACTIVITIES(arg)].sequence = 4
    /\ DOMAIN output.value = {"AAA", "BBB"}
    /\ output.value["AAA"] = 13
    /\ output.value["BBB"] = 22

\* C17: no step of any command removes a bucket or a key of a bucket, so
\* the key set of ACCOUNTS and of every ACTIVITIES bucket grows or stays;
\* the record of an account changes only in a setup that fetched an account
\* of that number, so an account the provider no longer lists keeps the
\* record stored last.
C17_NeverDeleted ==
    [][/\ \A name \in DOMAIN db :
              /\ name \in DOMAIN db'
              /\ DOMAIN db[name].kv \subseteq DOMAIN db'[name].kv
       /\ HasBucket(db, BkACCOUNTS) =>
              \A k \in DOMAIN db[BkACCOUNTS].kv :
                  k \notin Range(Numbers(fetched')) =>
                      db'[BkACCOUNTS].kv[k] = db[BkACCOUNTS].kv[k]]_vars

\* a setup that fetched account "10" alone, now closed, has left the record
\* of account "9" of an earlier setup in place
C17_Witness ==
    /\ SetupDone
    /\ fetched = <<Account(A1, "Closed")>>
    /\ listedBefore = <<Account(A1, "Active"), Account(A2, "Active")>>
    /\ loadAccounts(db) = <<Account(A1, "Closed"), Account(A2, "Active")>>

\* C18: a window whose save failed, at a Put part-way through its records
\* or at the commit, leaves the whole store as it was before the request:
\* no record of the window, no new bucket, the bucket's sequence as before,
\* and the records of the windows committed before it in place; a setup
\* whose save failed leaves the store as it was as well.
C18_AllOrNothing ==
    [][/\ (RequestWindow /\ fault' # "none") => db' = db
       /\ (Setup /\ fault' # "none") => db' = db]_vars

\* src/main.go has committed the first window and failed in the second at
\* the Put of the record without a tradeDate, after the Put of the dividend:
\* the bucket holds the record of the first window alone
C18_Witness ==
    /\ revision = "main"
    /\ feed = << <<T1>>, <<T4, T0, T2>> >>
    /\ pc = "exit"
    /\ fault = "io"
    /\ Len(windows) = 2
    /\ acct = A1
    /\ DOMAIN db[BkACTIVITIES(A1)].kv = {D1}
    /\ loadActivities(db, A1).activities = <<T1>>

\* this run found a stored token and presented its refresh token, which the
\* provider refused: an earlier exchange had consumed it
PresentedConsumed ==
    /\ found # Nil
    /\ exchanges = <<found.RefreshToken>>
    /\ found.RefreshToken # upstream.valid
    /\ ~dispatched
    /\ pc = "exit"
    /\ fault \in {"transport", "status"}

\* C19: whatever exchanges failed before, a run that found a stored token
\* never presents a refresh token the provider has consumed: the refresh
\* token stored under ROOT/TOKEN is the one the provider issued last.
C19_StoredIsLatestIssued ==
    /\ (pc \in {"idle", "initToken"} /\ ~NoTokenStored(db)) =>
           loadToken(db).token.RefreshToken = upstream.valid
    /\ ~PresentedConsumed

\* C20: in both revisions, refresh-activities without an argument ends at
\* once with the error that it requires an accountID argument: no account
\* sync is entered, no window is requested and no ACTIVITIES bucket for the
\* empty accountID comes to exist.
C20_MissingArgRejected ==
    (command = "refresh-activities" /\ arg = NoArg /\ dispatched) =>
        /\ pc = "exit"
        /\ err = <<"refresh-activities command requires an accountID argument or 'all'">>
        /\ synced = << >>
        /\ windows = << >>
        /\ bearer = NoBearer
        /\ ~HasBucket(db, BkACTIVITIES(NoArg))

\* C21: every step of the sync of an account, the request and save of a
\* window whether it succeeds or fails, and the return, leaves every bucket
\* other than the ACTIVITIES bucket of that account as it was and creates
\* none: ROOT with its TOKEN record, ACCOUNTS and the ACTIVITIES buckets of
\* the other accounts are unchanged, and the provider's token is not touched.
C21_SyncWritesOwnPartition ==
    [][(RequestWindow \/ SyncReturn) =>
        /\ \A name \in (DOMAIN db \cup DOMAIN db') \ {BkACTIVITIES(acct)} :
               /\ name \in DOMAIN db
               /\ name \in DOMAIN db'
               /\ db'[name] = db[name]
        /\ loadToken(db') = loadToken(db)
        /\ loadAccounts(db') = loadAccounts(db)
        /\ upstream' = upstream
        /\ token' = token]_vars

\* refresh-activities all has synced account "10" and committed the first
\* window of account "9": each has a bucket of its own with a record
C21_Witness ==
    /\ command = "refresh-activities"
    /\ arg = All
    /\ pc = "sync"
    /\ completed = <<A1>>
    /\ acct = A2
    /\ i = 1
    /\ fault = "none"
    /\ FeedAt(feed, 0) # << >>
    /\ DOMAIN db[BkACTIVITIES(A1)].kv # {}
    /\ DOMAIN db[BkACTIVITIES(A2)].kv # {}
    /\ db[BkACTIVITIES(A1)].sequence = db[BkACTIVITIES(A2)].sequence

====
